---- MODULE Spec2Model ----
(***************************************************************************)
(* Model of wasserstein_tanh.ipynb: the per-feature optimal-alpha search   *)
(* (calculate_optimal_values), the VariableTanh activation and the         *)
(* comparative training study (execute / run_analysis).                    *)
(*                                                                         *)
(* Numbers.  Floating point values are modelled in fixed point:            *)
(*   alpha values    : integers in units of 1/AScale   (AScale = 1.0)      *)
(*   logits (self.a) : integers in units of 1/LScale, or PosInf / NegInf   *)
(*   data, tanh out  : integers in units of 1/VScale                       *)
(* log, exp and tanh are computed by series / rational approximation in    *)
(* integer arithmetic; the IEEE special cases the code can hit (log(0),    *)
(* x/0, sigmoid rounding to exactly 0.0 or 1.0 in float32) are modelled    *)
(* explicitly.                                                             *)
(***************************************************************************)
EXTENDS Integers, Sequences, FiniteSets, TLC

\* ------------------------------------------------------------------------
\* Fixed-point units and float32 special values
\* ------------------------------------------------------------------------
AScale == 100000
LScale == 1000
VScale == 1000000
\* unit of a data value (1e-2)
DScale == 100
\* units of the intermediate series computations (1e-4)
EScale == 10000
\* ln(2) in units of 1/EScale
Ln2E == 6931
\* float +inf ; -inf is NegInf
PosInf == 1000000000
NegInf == -PosInf
\* float32: sigmoid(a) rounds to exactly 1.0 once exp(-a) < 2^-25 (a > 17.329)
SigmoidSatHi == 17329
\* float32: exp(-a) overflows / the quotient underflows to exactly 0.0 (a < -104)
SigmoidSatLo == -104000

IsFinite(x) == x > NegInf /\ x < PosInf

Abs(x) == IF x < 0 THEN -x ELSE x

\* integer division rounding toward zero on the magnitude (sign-symmetric)
SDiv(n, d) == IF n >= 0 THEN n \div d ELSE -((-n) \div d)

RECURSIVE Log2Floor(_)
Log2Floor(n) == IF n < 2 THEN 0 ELSE 1 + Log2Floor(n \div 2)

RECURSIVE Pow2(_)
Pow2(e) == IF e <= 0 THEN 1 ELSE 2 * Pow2(e - 1)

\* natural logarithm of the integer n >= 1, in units of 1/EScale:
\* n = 2^e * m, ln m = 2 artanh((m-1)/(m+1)) by its series
LnE(n) ==
    LET e  == Log2Floor(n)
        p  == Pow2(e)
        u  == (EScale * (n - p)) \div (n + p)
        u2 == (u * u) \div EScale
        u3 == (u2 * u) \div EScale
        u5 == (u3 * u2) \div EScale
        u7 == (u5 * u2) \div EScale
    IN  e * Ln2E + 2 * (u + u3 \div 3 + u5 \div 5 + u7 \div 7)

\* exp(-r) for 0 <= r < ln 2, argument and result in units of 1/EScale,
\* by its Taylor series
ExpNegE(r) ==
    LET r2 == (r * r) \div EScale
        r3 == (r2 * r) \div EScale
        r4 == (r3 * r) \div EScale
        r5 == (r4 * r) \div EScale
    IN  EScale - r + r2 \div 2 - r3 \div 6 + r4 \div 24 - r5 \div 120

\* torch.log(alpha / (1 - alpha)) for one entry, alpha in [0, AScale]:
\* alpha = 0 gives log(0) = -inf, alpha = 1 gives log(1/0) = log(inf) = +inf
InvSigmoid(alpha) ==
    IF alpha <= 0 THEN NegInf
    ELSE IF alpha >= AScale THEN PosInf
    ELSE SDiv((LnE(alpha) - LnE(AScale - alpha)) * LScale, EScale)

\* 1 - sigmoid(x) = t / (1 + t) with t = exp(-x) = 2^-k exp(-r), x = k ln2 + r,
\* for finite x >= 0 below the float32 saturation point; never below one unit
SigmoidTail(x) ==
    LET xe == (x * EScale) \div LScale
        k  == xe \div Ln2E
        er == ExpNegE(xe % Ln2E)
        q  == IF k >= 17 THEN 0 ELSE (AScale * er) \div (EScale * Pow2(k) + er)
    IN  IF q < 1 THEN 1 ELSE q

\* torch.sigmoid for one finite float32 entry strictly between the
\* saturation points: sigmoid(-x) = 1 - sigmoid(x)
SigmoidFinite(x) ==
    IF x >= 0 THEN AScale - SigmoidTail(x) ELSE SigmoidTail(-x)

Sigmoid(x) ==
    IF x = PosInf THEN AScale
    ELSE IF x = NegInf THEN 0
    ELSE IF x >= SigmoidSatHi THEN AScale
    ELSE IF x <= SigmoidSatLo THEN 0
    ELSE SigmoidFinite(x)

\* in-place additive update of one float entry (inf absorbs finite addends)
AddFloat(x, d) == IF IsFinite(x) THEN x + d ELSE x

\* ------------------------------------------------------------------------
\* calculate_optimal_values: the numerical pieces
\* ------------------------------------------------------------------------
Max(x, y) == IF x >= y THEN x ELSE y

Sign(x) == IF x > 0 THEN 1 ELSE IF x < 0 THEN -1 ELSE 0

\* tanh at the knots 0, 0.125, 0.25, ..., 8.0, in units of 1/VScale
TanhKnots ==
    << 0, 124353, 244919, 358357, 462117, 554600, 635149, 703906, 761594,
       809301, 848284, 879827, 905148, 925346, 941376, 954045, 964028,
       971873, 978026, 982845, 986614, 989560, 991860, 993655, 995055,
       996147, 996998, 997661, 998178, 998581, 998894, 999139, 999329,
       999478, 999593, 999683, 999753, 999808, 999850, 999883, 999909,
       999929, 999945, 999957, 999967, 999974, 999980, 999984, 999988,
       999990, 999993, 999994, 999995, 999996, 999997, 999998, 999998,
       999999, 999999, 999999, 999999, 1000000, 1000000, 1000000, 1000000 >>

\* spacing of the knots (0.125) as 1000 * KnotStep / VScale
KnotStep == 125

\* np.tanh for z >= 0 in units of 1/VScale: linear interpolation between
\* the knots (the product is split so that it stays within 32 bits)
TanhPos(z) ==
    LET k  == z \div (1000 * KnotStep)
        fr == z % (1000 * KnotStep)
        fh == fr \div 1000
        fl == fr % 1000
    IN  IF k + 1 >= Len(TanhKnots) THEN TanhKnots[Len(TanhKnots)]
        ELSE LET t0 == TanhKnots[k + 1]
                 dt == TanhKnots[k + 2] - t0
             IN  t0 + (dt * fh + (dt * fl) \div 1000) \div KnotStep

\* np.tanh, an odd function
Tanh(z) == IF z >= 0 THEN TanhPos(z) ELSE -TanhPos(-z)

\* the float nan, as a data value and as a value of the objective
NaN == 2000000000

\* np.isnan
IsNaN(x) == x = NaN

\* the float comparison x <= y, which is False when either side is nan
LeFloat(x, y) == ~IsNaN(x) /\ ~IsNaN(y) /\ x <= y

\* np.tanh(x * data_std[:, idx]) for one entry: alpha in units of 1/AScale,
\* the data value in units of 1/DScale, the result in units of 1/VScale;
\* nan for a nan entry
tanh_scaled(alpha, xval) ==
    IF IsNaN(xval) THEN NaN
    ELSE Tanh(SDiv(alpha * xval, (AScale * DScale) \div VScale))

\* exp(-t) for t >= 0 in units of 1/EScale
ExpNegFull(t) ==
    LET k == t \div Ln2E
    IN  IF k > 13 THEN 0 ELSE ExpNegE(t % Ln2E) \div Pow2(k)

\* norm.ppf(q) for q = 0.001, in units of 1/EScale; norm.ppf(1 - q) is its negative
PpfQ == -30902
\* 1 / sqrt(2 pi) in units of 1/EScale
InvSqrt2PiE == 3989
\* int(1 / q), the number of linspace points: 1000 in the notebook, scaled down
RefN == 12

\* x = np.linspace(norm.ppf(q), norm.ppf(1 - q), int(1 / q)), entry j (0-based)
linspace_x(j) == PpfQ + (j * (-2 * PpfQ)) \div (RefN - 1)

\* int(j) for j in y = norm.pdf(x) * len(x): the number of copies of x[j]
copies(j) ==
    LET x == linspace_x(j)
        e == ExpNegFull((x * x) \div (2 * EScale))
    IN  (InvSqrt2PiE * RefN * e) \div (EScale * EScale)

\* z, the expanded list, kept run-length encoded: the positions that occur
\* at least once, in order, each with its number of copies
expanded_z ==
    LET keep == {j \in 0..(RefN - 1) : copies(j) > 0}
        RECURSIVE build(_)
        build(j) == IF j >= RefN THEN <<>>
                    ELSE IF j \in keep
                         THEN <<[v |-> linspace_x(j), w |-> copies(j)]>> \o build(j + 1)
                         ELSE build(j + 1)
    IN  build(0)

\* the rescale without its final "- 1": 2 * (z - z.min()) / (z.max() - z.min())
make_gaussian_unshifted ==
    LET z    == expanded_z
        zmin == z[1].v
        zmax == z[Len(z)].v
    IN  [j \in 1..Len(z) |->
            [v |-> ((20000 * (z[j].v - zmin)) \div (zmax - zmin)) * (VScale \div 10000),
             w |-> z[j].w]]

\* gaussian = 2 * (z - z.min()) / (z.max() - z.min()) - 1, in units of 1/VScale
make_gaussian ==
    LET z    == expanded_z
        zmin == z[1].v
        zmax == z[Len(z)].v
    IN  [j \in 1..Len(z) |->
            [v |-> ((20000 * (z[j].v - zmin)) \div (zmax - zmin)) * (VScale \div 10000)
                   - VScale,
             w |-> z[j].w]]

RECURSIVE SumW(_, _)
SumW(ref, j) == IF j = 0 THEN 0 ELSE ref[j].w + SumW(ref, j - 1)

\* all_values.sort(): the values of a set in increasing order
RECURSIVE SortSet(_)
SortSet(S) ==
    IF S = {} THEN <<>>
    ELSE LET m == CHOOSE x \in S : \A y \in S : x <= y
         IN  <<m>> \o SortSet(S \ {m})

\* scipy.stats.wasserstein_distance(u, v) for a non-empty sample u (equal
\* weights) and the run-length encoded sample ref: the integral of
\* |U_cdf - V_cdf| over the sorted union of the values, here multiplied by
\* Len(u) * (number of reference values) so that it stays an integer.  A nan
\* in u sorts last and makes the last difference of the sorted values, and
\* with it the sum, nan.
wasserstein_distance(u, ref) ==
    IF \E i \in 1..Len(u) : IsNaN(u[i]) THEN NaN ELSE
    LET n      == Len(u)
        wtot   == SumW(ref, Len(ref))
        all    == SortSet({u[i] : i \in 1..n} \cup {ref[j].v : j \in 1..Len(ref)})
        ucdf(t) == Cardinality({i \in 1..n : u[i] <= t})
        RECURSIVE vcdf(_, _)
        vcdf(t, j) == IF j = 0 THEN 0
                      ELSE (IF ref[j].v <= t THEN ref[j].w ELSE 0) + vcdf(t, j - 1)
        RECURSIVE integral(_)
        integral(k) ==
            IF k >= Len(all) THEN 0
            ELSE Abs(ucdf(all[k]) * wtot - vcdf(all[k], Len(ref)) * n)
                    * (all[k + 1] - all[k])
                 + integral(k + 1)
    IN  integral(1)

\* func(x, idx): the objective of feature idx at alpha x
func(x, col, ref) ==
    wasserstein_distance([i \in 1..Len(col) |-> tanh_scaled(x, col[i])], ref)

\* golden_mean = 0.5 * (3 - sqrt(5)) as GoldenNum / GoldenDen
GoldenNum == 3820
GoldenDen == 10000
\* tol1 = sqrt_eps * |xf| + xatol / 3 with the default xatol = 1e-5, rounded
\* up to one unit of 1/AScale
Tol1 == 1
\* the default maxiter of the bounded method
MaxFun == 500

\* the update taking every probe as the new best point, better or not
bracket_update_last(st, x, fu) ==
    [st EXCEPT !.a = IF x >= st.xf THEN st.xf ELSE st.a,
               !.b = IF x >= st.xf THEN st.b ELSE st.xf,
               !.xf = x, !.fx = fu, !.fu = fu,
               !.num = st.num + 1, !.probes = st.probes \cup {x}]

\* the update of the bracket after probing x
\* (scipy.optimize._minimize_scalar_bounded: "if fu <= fx: ... else: ...")
bracket_update(st, x, fu) ==
    IF LeFloat(fu, st.fx)
    THEN [st EXCEPT !.a = IF x >= st.xf THEN st.xf ELSE st.a,
                    !.b = IF x >= st.xf THEN st.b ELSE st.xf,
                    !.xf = x, !.fx = fu, !.fu = fu,
                    !.num = st.num + 1, !.probes = st.probes \cup {x}]
    ELSE [st EXCEPT !.a = IF x < st.xf THEN x ELSE st.a,
                    !.b = IF x < st.xf THEN st.b ELSE x,
                    !.fu = fu,
                    !.num = st.num + 1, !.probes = st.probes \cup {x}]

\* the loop of the bounded method, with every step the golden-section step
\* (the parabolic-interpolation shortcut of Brent's method is left out)
RECURSIVE bounded_loop(_, _, _)
bounded_loop(col, ref, st) ==
    IF ~(Abs(2 * st.xf - (st.a + st.b)) > 4 * Tol1 - (st.b - st.a))
    THEN [st EXCEPT !.status = 0]
    ELSE LET e   == IF 2 * st.xf >= st.a + st.b THEN st.a - st.xf ELSE st.b - st.xf
             rat == SDiv(GoldenNum * e, GoldenDen)
             si  == Sign(rat) + (IF rat = 0 THEN 1 ELSE 0)
             x   == st.xf + si * Max(Abs(rat), Tol1)
             nx  == bracket_update(st, x, func(x, col, ref))
         IN  IF nx.num >= MaxFun THEN [nx EXCEPT !.status = 1]
             ELSE bounded_loop(col, ref, nx)

\* minimize_scalar(func, bounds=(0, 1), method='bounded', args=idx): the
\* OptimizeResult, with x as xf.  status 0 is 'Solution found.', 1 is
\* 'Maximum number of function calls reached.', 2 is 'NaN result
\* encountered.' (set after the loop when fx or the last fu is nan);
\* success is status = 0.  Nothing is raised and, with the default
\* disp = 0, nothing is printed in any of the three cases.
minimize_scalar(col, ref) ==
    LET x1 == 0 + SDiv(GoldenNum * (AScale - 0), GoldenDen)
        r  == bounded_loop(col, ref,
                [a |-> 0, b |-> AScale, xf |-> x1, fx |-> func(x1, col, ref),
                 fu |-> PosInf, num |-> 1, probes |-> {x1}, status |-> 0])
    IN  IF IsNaN(r.fx) \/ IsNaN(r.fu) THEN [r EXCEPT !.status = 2] ELSE r

\* ------------------------------------------------------------------------
\* State
\* ------------------------------------------------------------------------
VARIABLES
    a,              \* var_tanh.a : the logit row vector (sequence of floats)
    a_is_param,     \* TRUE iff var_tanh.a is an nn.Parameter (fixed=False)
    alpha_history,  \* var_tanh.alpha_history : list of rows [epoch, alpha_1..alpha_k]
    alphas,         \* the notebook's global alphas tensor (the optimizer's output)
    pc,             \* position of run_analysis
    run_idx,        \* run_analysis: run_idx
    inst_idx,       \* run_analysis: position in reversed(instances), 1-based
    epoch,          \* run_analysis: epoch
    batch,          \* run_analysis: number of batches of the epoch already trained
    original_model, \* weights of original_model (abstract value)
    model_w,        \* weights of the deep copy being trained; NoModel once deleted
    opt_params,     \* the parameters handed to optim.AdamW
    sched,          \* scheduler.last_epoch : number of scheduler.step() calls
    lrs,            \* lrs : the learning rates read, as the scheduler step they belong to
    train_loss,     \* train_loss : one score per evaluation, kept as the epoch it was measured at
    test_loss,      \* test_loss  : likewise
    include_header, \* include_header
    csv,            \* the results file at path : sequence of written chunks
    alpha_csv,      \* the file "alpha_history_" + path : sequence of written chunks
    data_std,       \* calculate_optimal_values: the feature matrix train_set.data
    gaussian,       \* calculate_optimal_values: the reference sample
    alphas_list,    \* calculate_optimal_values: the local list alphas
    opt_i,          \* calculate_optimal_values: number of features already optimized
    stdout,         \* calculate_optimal_values: what it has printed, in order
    opt_pc          \* position of calculate_optimal_values

vtVars == <<a, a_is_param, alpha_history>>

runVars == <<alphas, pc, run_idx, inst_idx, epoch, batch, original_model, model_w,
             opt_params, sched, lrs, train_loss, test_loss, include_header, csv,
             alpha_csv>>

optVars == <<data_std, gaussian, alphas_list, opt_i, stdout, opt_pc>>

vars == <<vtVars, runVars, optVars>>

\* a matrix with no rows and no columns
NoData == [nrows |-> 0, ncols |-> 0, cols |-> <<>>]

\* the values of the calculate_optimal_values variables while it is not running
OptIdle ==
    /\ data_std = NoData
    /\ gaussian = <<>>
    /\ alphas_list = <<>>
    /\ opt_i = 0
    /\ stdout = <<>>
    /\ opt_pc = "idle"

NoModel == -1

\* the values of the run_analysis variables while no study is running
RunIdle ==
    /\ alphas = <<>>
    /\ pc = "idle"
    /\ run_idx = 0
    /\ inst_idx = 0
    /\ epoch = 0
    /\ batch = 0
    /\ original_model = NoModel
    /\ model_w = NoModel
    /\ opt_params = {}
    /\ sched = 0
    /\ lrs = <<>>
    /\ train_loss = <<>>
    /\ test_loss = <<>>
    /\ include_header = FALSE
    /\ csv = <<>>
    /\ alpha_csv = <<>>

\* ------------------------------------------------------------------------
\* class VariableTanh
\* ------------------------------------------------------------------------
\* VariableTanh.__init__ computing the logit in place in the tensor it is
\* given (alphas.div_(1 - alphas).log_()): the caller's tensor ends up
\* holding the logits
VariableTanh_init_inplace(alphas_arg, random_init, fixed, rand) ==
    LET used    == IF random_init THEN rand ELSE alphas_arg
        inv_sig == [i \in 1..Len(used) |-> InvSigmoid(used[i])]
    IN  [a             |-> inv_sig,
         is_param      |-> ~fixed,
         alpha_history |-> <<>>,
         arg           |-> IF random_init THEN alphas_arg ELSE inv_sig]

\* VariableTanh.__init__(alphas, random_init, fixed); rand is the value
\* torch.rand_like(alphas) returns.  torch.log and the division are
\* out-of-place: the caller's tensor (arg) is left as it was.
VariableTanh_init(alphas_arg, random_init, fixed, rand) ==
    LET used    == IF random_init THEN rand ELSE alphas_arg
        inv_sig == [i \in 1..Len(used) |-> InvSigmoid(used[i])]
    IN  [a             |-> inv_sig,
         is_param      |-> ~fixed,
         alpha_history |-> <<>>,
         arg           |-> alphas_arg]

\* property VariableTanh.alphas : torch.sigmoid(self.a)
alphas_of(av) == [i \in 1..Len(av) |-> Sigmoid(av[i])]

\* record_alpha keeping a live view of the alphas in every row instead of
\* a list of floats: the rows already logged show the current alphas
record_alpha_live(hist, av, ep) ==
    [i \in 1..(Len(hist) + 1) |->
        IF i <= Len(hist) THEN <<hist[i][1]>> \o alphas_of(av)
        ELSE <<ep>> \o alphas_of(av)]

\* VariableTanh.record_alpha(epoch): append [epoch] + alphas.detach().flatten().tolist()
record_alpha(hist, av, ep) == Append(hist, <<ep>> \o alphas_of(av))

\* an in-place update of a parameter tensor by the per-entry steps d
\* (optimizer.step on an nn.Parameter)
step_param(av, d) == [i \in 1..Len(av) |-> AddFloat(av[i], d[i])]

\* ------------------------------------------------------------------------
\* Specification SpecVT: one VariableTanh instance under any use of its
\* interface (construction from any alpha vector in [0,1]^k, gradient
\* updates of a trainable a, record_alpha calls).
\* ------------------------------------------------------------------------
MaxHist == 2
MaxLogit == 18000
DeltaStep == 9000

\* alpha vectors handed to the constructor: entries in the closed [0,1]
AlphaInputs ==
    { <<0>>, <<AScale>>, <<50000>>, <<1000>>,
      <<1000, 99990>>, <<0, AScale>>, <<50000, 10000>> }

\* values torch.rand_like can return: uniform on the half-open [0,1)
RandInputs == { <<0>>, <<73000>>, <<0, 73000>>, <<20000, 0>> }

EpochArgs == {0, 1}

Deltas == {-DeltaStep, DeltaStep}

InRange(av) == \A i \in 1..Len(av) : IsFinite(av[i]) => Abs(av[i]) <= MaxLogit

VTInit ==
    \E al \in AlphaInputs, rnd \in RandInputs, ri \in BOOLEAN, fx \in BOOLEAN :
        /\ Len(rnd) = Len(al)
        /\ LET vt == VariableTanh_init(al, ri, fx, rnd)
           IN  /\ a = vt.a
               /\ a_is_param = vt.is_param
               /\ alpha_history = vt.alpha_history
    /\ RunIdle
    /\ OptIdle

\* a gradient step of whatever optimizer owns the parameter
VTUpdate ==
    /\ a_is_param
    /\ \E d \in [1..Len(a) -> Deltas] :
        /\ InRange(step_param(a, d))
        /\ a' = step_param(a, d)
    /\ UNCHANGED <<a_is_param, alpha_history>>
    /\ UNCHANGED <<runVars, optVars>>

VTRecordAlpha ==
    /\ Len(alpha_history) < MaxHist
    /\ \E ep \in EpochArgs : alpha_history' = record_alpha(alpha_history, a, ep)
    /\ UNCHANGED <<a, a_is_param>>
    /\ UNCHANGED <<runVars, optVars>>

VTNext == VTUpdate \/ VTRecordAlpha

SpecVT == VTInit /\ [][VTNext]_vars

\* C3: in every reachable state of a VariableTanh instance every entry of
\* the exposed alphas, sigmoid(a), lies strictly inside the open (0,1).
C3_AlphasStrictlyInside ==
    \A i \in 1..Len(a) : alphas_of(a)[i] > 0 /\ alphas_of(a)[i] < AScale

\* C4: every entry of the stored logit a is finite, also when the alpha
\* vector the instance was constructed from holds an exact 0 or 1.
C4_LogitFinite ==
    \A i \in 1..Len(a) : IsFinite(a[i])

\* C8: alpha_history is append-only and snapshots by value: no step changes
\* or removes a row already logged, and a step that logs a row appends
\* exactly one row holding the alphas current at that moment.
C8_HistoryAppendOnly ==
    [][ /\ Len(alpha_history') >= Len(alpha_history)
        /\ \A i \in 1..Len(alpha_history) : alpha_history'[i] = alpha_history[i]
        /\ Len(alpha_history') > Len(alpha_history) =>
              /\ Len(alpha_history') = Len(alpha_history) + 1
              /\ Tail(alpha_history'[Len(alpha_history')]) = alphas_of(a) ]_vars

\* a logged row whose alphas differ from the current ones: the parameter
\* was updated after the row was recorded, and a second row was logged since
C8_Witness ==
    /\ a_is_param
    /\ Len(alpha_history) = 2
    /\ Tail(alpha_history[1]) # alphas_of(a)
    /\ Tail(alpha_history[1]) # Tail(alpha_history[2])

\* ------------------------------------------------------------------------
\* execute / run_analysis
\* ------------------------------------------------------------------------
\* CONFIG['n_times'], CONFIG['epochs'], CONFIG['verbose_rate'] and the number
\* of batches of the train loader, scaled down
NTimes == 2
Epochs == 4
VerboseRate == 2
NBatches == 2

\* execute: all_transforms, in the order the list is written.  A transform
\* dict holds either the notebook's global alphas tensor itself (shared) or
\* a literal 0-dim tensor, which reshape(1, -1) turns into one entry.
all_transforms ==
    << [name |-> "Tanh [optimal]",   shared |-> TRUE,  lit |-> <<>>,      fixed |-> TRUE],
       [name |-> "Tanh [trainable]", shared |-> TRUE,  lit |-> <<>>,      fixed |-> FALSE],
       [name |-> "Tanh [0.01]",      shared |-> FALSE, lit |-> <<1000>>,  fixed |-> TRUE],
       [name |-> "Tanh [0.1]",       shared |-> FALSE, lit |-> <<10000>>, fixed |-> TRUE],
       [name |-> "Tanh [1.0]",       shared |-> FALSE, lit |-> <<99990>>, fixed |-> TRUE] >>

NInst == Len(all_transforms)

\* reversed(instances)
reversed_instances == [i \in 1..NInst |-> all_transforms[NInst + 1 - i]]

\* the attributes hasattr finds on model = nn.Sequential(var_tanh, model):
\* the methods of nn.Module and the children under their index names; the
\* attributes of a child are not attributes of the container
nn_Sequential_attrs ==
    {"forward", "parameters", "eval", "train", "to", "apply", "0", "1"}

hasattr_model(name) == name \in nn_Sequential_attrs

\* model.parameters() if VariableTanh wrapped a in nn.Parameter whatever
\* the fixed flag says
model_parameters_all(is_param) == {"1.weights", "0.a"}

\* model.parameters() of nn.Sequential(var_tanh, model): the parameters of
\* the MainModel copy, and var_tanh.a iff it was wrapped in nn.Parameter
model_parameters(is_param) ==
    {"1.weights"} \cup (IF is_param THEN {"0.a"} ELSE {})

\* a step on a model that is original_model itself (no deep copy was
\* taken): the step changes original_model too
optimizer_step_shared(orig, w, dw) ==
    [original_model |-> w + dw, model_w |-> w + dw]

\* optimizer.step() on the weights of model, the deep copy of original_model
\* inside the nn.Sequential: the copy changes, original_model is another
\* object and keeps its weights
optimizer_step(orig, w, dw) ==
    [original_model |-> orig, model_w |-> w + dw]

\* include_header = True at the start of every run
header_for_run_always(r) == TRUE

\* include_header = run_idx == 0
header_for_run(r) == r = 0

\* DataFrame.to_csv(file, mode='w' if include_header else 'a', header=include_header)
to_csv(file, rows, header) ==
    IF header THEN << [header |-> TRUE, rows |-> rows] >>
    ELSE Append(file, [header |-> FALSE, rows |-> rows])

\* the rows run_analysis builds for one configuration: enumerate(record),
\* the Epoch column multiplied by verbose_rate, Test rows before Train rows
score_rows(record, type, name) ==
    [i \in 1..Len(record) |->
        [Epoch |-> (i - 1) * VerboseRate, Score |-> record[i],
         Type |-> type, Method |-> name]]

\* alpha vectors calculate_optimal_values can have returned
OptimalAlphas == { <<30000>>, <<25000, 80000>>, <<62000, 4000>> }

\* random initial weights of MainModel, and the change one optimizer step makes
WeightInits == {0, 1}
WeightSteps == {1, 2}

RunInit ==
    /\ alphas \in OptimalAlphas
    /\ pc = "run"
    /\ run_idx = 0
    /\ inst_idx = 0
    /\ epoch = 0
    /\ batch = 0
    /\ original_model = NoModel
    /\ model_w = NoModel
    /\ opt_params = {}
    /\ sched = 0
    /\ lrs = <<>>
    /\ train_loss = <<>>
    /\ test_loss = <<>>
    /\ include_header = FALSE
    /\ csv = <<>>
    /\ alpha_csv = <<>>
    /\ a = <<>>
    /\ a_is_param = FALSE
    /\ alpha_history = <<>>
    /\ OptIdle

\* for run_idx in range(n_times): build original_model, set include_header
RunStart ==
    /\ pc = "run"
    /\ run_idx < NTimes
    /\ original_model' \in WeightInits
    /\ include_header' = header_for_run(run_idx)
    /\ inst_idx' = 1
    /\ pc' = "instance"
    /\ UNCHANGED <<vtVars, alphas, run_idx, epoch, batch, model_w, opt_params, sched,
                   lrs, train_loss, test_loss, csv, alpha_csv>>
    /\ UNCHANGED optVars

\* the run loop is exhausted: read the csv back and return
RunReturn ==
    /\ pc = "run"
    /\ run_idx = NTimes
    /\ pc' = "done"
    /\ UNCHANGED <<vtVars, alphas, run_idx, inst_idx, epoch, batch, original_model,
                   model_w, opt_params, sched, lrs, train_loss, test_loss,
                   include_header, csv, alpha_csv>>
    /\ UNCHANGED optVars

\* top of the loop over reversed(instances): deep copy, VariableTanh(**transform),
\* nn.Sequential, optimizer, scheduler, empty score lists
InstanceStart ==
    /\ pc = "instance"
    /\ inst_idx <= NInst
    /\ LET tr == reversed_instances[inst_idx]
           vt == VariableTanh_init(IF tr.shared THEN alphas ELSE tr.lit,
                                   FALSE, tr.fixed, <<>>)
       IN  /\ a' = vt.a
           /\ a_is_param' = vt.is_param
           /\ alpha_history' = vt.alpha_history
           /\ alphas' = IF tr.shared THEN vt.arg ELSE alphas
           /\ opt_params' = model_parameters(vt.is_param)
    /\ model_w' = original_model
    /\ sched' = 0
    /\ lrs' = <<>>
    /\ train_loss' = <<>>
    /\ test_loss' = <<>>
    /\ epoch' = 0
    /\ batch' = 0
    /\ pc' = "epoch"
    /\ UNCHANGED <<run_idx, inst_idx, original_model, include_header, csv, alpha_csv>>
    /\ UNCHANGED optVars

\* the instance loop is exhausted: next run
RunEnd ==
    /\ pc = "instance"
    /\ inst_idx > NInst
    /\ run_idx' = run_idx + 1
    /\ pc' = "run"
    /\ UNCHANGED <<vtVars, alphas, inst_idx, epoch, batch, original_model, model_w,
                   opt_params, sched, lrs, train_loss, test_loss, include_header,
                   csv, alpha_csv>>
    /\ UNCHANGED optVars

\* top of the epoch loop: record_alpha if the model has it, read the lr
EpochStart ==
    /\ pc = "epoch"
    /\ epoch < Epochs
    /\ alpha_history' = IF hasattr_model("record_alpha")
                        THEN record_alpha(alpha_history, a, epoch)
                        ELSE alpha_history
    /\ lrs' = Append(lrs, sched)
    /\ batch' = 0
    /\ pc' = "batch"
    /\ UNCHANGED <<a, a_is_param, alphas, run_idx, inst_idx, epoch, original_model,
                   model_w, opt_params, sched, train_loss, test_loss, include_header,
                   csv, alpha_csv>>
    /\ UNCHANGED optVars

\* one batch: zero_grad, forward, loss, backward, optimizer.step, which
\* updates in place exactly the parameters the optimizer was built with
TrainBatch ==
    /\ pc = "batch"
    /\ batch < NBatches
    /\ IF "0.a" \in opt_params
       THEN \E d \in [1..Len(a) -> Deltas] :
                /\ InRange(step_param(a, d))
                /\ a' = step_param(a, d)
       ELSE a' = a
    /\ IF "1.weights" \in opt_params
       THEN \E dw \in WeightSteps :
                LET r == optimizer_step(original_model, model_w, dw)
                IN  /\ model_w' = r.model_w
                    /\ original_model' = r.original_model
       ELSE UNCHANGED <<model_w, original_model>>
    /\ batch' = batch + 1
    /\ UNCHANGED <<a_is_param, alpha_history, alphas, pc, run_idx, inst_idx, epoch,
                   opt_params, sched, lrs, train_loss, test_loss,
                   include_header, csv, alpha_csv>>
    /\ UNCHANGED optVars

\* after the batches: scheduler.step, and the scores every verbose_rate
\* epochs and at the last epoch
EpochEnd ==
    /\ pc = "batch"
    /\ batch = NBatches
    /\ sched' = sched + 1
    /\ IF epoch % VerboseRate = 0 \/ epoch = Epochs - 1
       THEN /\ train_loss' = Append(train_loss, epoch)
            /\ test_loss' = Append(test_loss, epoch)
       ELSE UNCHANGED <<train_loss, test_loss>>
    /\ epoch' = epoch + 1
    /\ pc' = "epoch"
    /\ UNCHANGED <<vtVars, alphas, run_idx, inst_idx, batch, original_model, model_w,
                   opt_params, lrs, include_header, csv, alpha_csv>>
    /\ UNCHANGED optVars

\* after the epochs: write the scores, write the alpha history if the model
\* has one, clear include_header, delete optimizer and model
InstanceEnd ==
    /\ pc = "epoch"
    /\ epoch = Epochs
    /\ LET name == reversed_instances[inst_idx].name
           rows == score_rows(test_loss, "Test", name)
                   \o score_rows(train_loss, "Train", name)
       IN  csv' = to_csv(csv, rows, include_header)
    /\ alpha_csv' = IF hasattr_model("alpha_history")
                    THEN to_csv(alpha_csv, alpha_history, include_header)
                    ELSE alpha_csv
    /\ include_header' = FALSE
    /\ opt_params' = {}
    /\ model_w' = NoModel
    /\ inst_idx' = inst_idx + 1
    /\ pc' = "instance"
    /\ UNCHANGED <<vtVars, alphas, run_idx, epoch, batch, original_model, sched, lrs,
                   train_loss, test_loss>>
    /\ UNCHANGED optVars

Next ==
    \/ RunStart
    \/ RunReturn
    \/ InstanceStart
    \/ RunEnd
    \/ EpochStart
    \/ TrainBatch
    \/ EpochEnd
    \/ InstanceEnd

Spec == RunInit /\ [][Next]_vars

Training == pc \in {"epoch", "batch"}

logits_of(al) == [i \in 1..Len(al) |-> InvSigmoid(al[i])]

\* C1: when the epoch loop of a configuration has run its E epochs, the
\* transform's alpha_history holds exactly E rows with steps 0, 1, ..., E-1.
C1_RecordedOncePerEpoch ==
    (pc = "epoch" /\ epoch = Epochs) =>
        /\ Len(alpha_history) = Epochs
        /\ \A i \in 1..Epochs : alpha_history[i][1] = i - 1

\* C2: while a configuration built with fixed=True trains, no step changes
\* its logit a; and a is among the parameters the optimizer updates exactly
\* for the configuration built with fixed=False.
C2_FixedLogitFrozen ==
    /\ [][(Training /\ reversed_instances[inst_idx].fixed) => a' = a]_vars
    /\ [](Training =>
            (("0.a" \in opt_params) <=> ~reversed_instances[inst_idx].fixed))

\* the fixed 'Tanh [optimal]' configuration at the end of its epochs
C2_Witness ==
    /\ pc = "epoch"
    /\ epoch = Epochs
    /\ inst_idx = NInst
    /\ reversed_instances[inst_idx].fixed
    /\ "1.weights" \in opt_params
    /\ model_w # original_model

\* C9: when a configuration is finished its alpha history has been written
\* to the alpha-history file: the last chunk of the file holds its rows.
C9_HistoryPersisted ==
    (pc = "instance" /\ inst_idx > 1) =>
        /\ alpha_csv # <<>>
        /\ alpha_csv[Len(alpha_csv)].rows = alpha_history

\* C10: no step changes the global alphas vector, and the shared fixed
\* configuration ('Tanh [optimal]') trains with the logits of that vector.
C10_OptimizerOutputImmutable ==
    /\ [][alphas' = alphas]_vars
    /\ [](( /\ Training
            /\ reversed_instances[inst_idx].shared
            /\ reversed_instances[inst_idx].fixed ) => a = logits_of(alphas))

\* 'Tanh [optimal]' of the second run has trained, after the trainable
\* configuration was built from the same vector and trained twice
C10_Witness ==
    /\ run_idx = 1
    /\ inst_idx = NInst
    /\ pc = "epoch"
    /\ epoch = Epochs
    /\ a = logits_of(alphas)

\* C14: within a run no step changes the weights of original_model, and
\* every configuration starts training from a copy that equals it: the copy
\* taken for the k-th configuration is the copy taken for the first.
C14_SameInitialWeights ==
    /\ [][(pc \in {"instance", "epoch", "batch"}) =>
            original_model' = original_model]_vars
    /\ [][(pc = "instance" /\ pc' = "epoch") => model_w' = original_model]_vars
    /\ [](pc \in {"instance", "epoch", "batch"} => original_model \in WeightInits)

\* the second configuration of a run has just taken its copy, after the
\* first one was trained and its scores written
C14_Witness ==
    /\ pc = "epoch"
    /\ epoch = 0
    /\ inst_idx = 2
    /\ csv # <<>>
    /\ model_w = original_model

\* C15: the results file gets its header from the first write only, the
\* write of the first configuration of run 0; a write never loses what the
\* file already holds; and when the study is done the file holds one chunk
\* of rows per (run, configuration) pair, in the order they were processed.
C15_HeaderOnceRowsKept ==
    /\ [][csv # <<>> =>
            /\ Len(csv') >= Len(csv)
            /\ SubSeq(csv', 1, Len(csv)) = csv]_vars
    /\ [](\A k \in 1..Len(csv) : csv[k].header <=> k = 1)
    /\ [](pc = "instance" => Len(csv) = run_idx * NInst + inst_idx - 1)
    /\ [](pc = "done" =>
            /\ Len(csv) = NTimes * NInst
            /\ \A k \in 1..Len(csv) :
                  \A i \in 1..Len(csv[k].rows) :
                      csv[k].rows[i].Method
                          = reversed_instances[((k - 1) % NInst) + 1].name)

\* the study is done and the file holds the rows of a later run after
\* those of run 0
C15_Witness ==
    /\ pc = "done"
    /\ Len(csv) > NInst
    /\ csv[1].header
    /\ ~csv[NInst + 1].header
    /\ csv[NInst + 1].rows # <<>>

\* the epochs at which a score is measured, in order
RECURSIVE scored_epochs(_)
scored_epochs(e) ==
    IF e = 0 THEN <<>>
    ELSE scored_epochs(e - 1)
            \o (IF (e - 1) % VerboseRate = 0 \/ (e - 1) = Epochs - 1
                THEN <<e - 1>> ELSE <<>>)

\* C16: when the epochs of a configuration are over, its scores are the
\* ones measured at the epochs e with e % v = 0 or e = E - 1; and every row
\* of the results file has in its Epoch column the epoch its score was
\* measured at (the model keeps with each score that epoch).
C16_EpochLabelIsEpoch ==
    /\ (pc = "epoch" /\ epoch = Epochs) =>
            /\ train_loss = scored_epochs(Epochs)
            /\ test_loss = scored_epochs(Epochs)
    /\ \A k \in 1..Len(csv) :
          \A i \in 1..Len(csv[k].rows) :
              csv[k].rows[i].Epoch = csv[k].rows[i].Score

\* ------------------------------------------------------------------------
\* Specification SpecOpt: calculate_optimal_values on any feature matrix
\* ------------------------------------------------------------------------
MaxCols == 2

\* the numbers of rows (samples) of the feature matrices
RowCounts == {0, 1, 2}

\* data values in units of 1/DScale
DataValues == {-150, -20, 20}

\* a column of n >= 1 rows that holds a nan (a missing value), here in its
\* last row: the objective is nan wherever the nan stands
NaNColumn(n) == [i \in 1..n |-> IF i = n THEN NaN ELSE -20]

\* the columns of n rows: the columns of data values (the rows are taken in
\* nondecreasing order), and one column with a nan
Columns(n) ==
    {c \in [1..n -> DataValues] : \A i \in 1..(n - 1) : c[i] <= c[i + 1]}
    \cup (IF n >= 1 THEN {NaNColumn(n)} ELSE {})

\* feature matrices of RowCounts rows and up to MaxCols columns, among them
\* the ones with no rows and the ones with no columns
Matrices ==
    UNION { UNION { {[nrows |-> n, ncols |-> k, cols |-> cs] :
                        cs \in [1..k -> Columns(n)]} : k \in 0..MaxCols }
            : n \in RowCounts }

\* the loop body with the column index ignored (args=i dropped): every
\* feature is searched on the first column
optimize_feature_first(list, data, i, ref) ==
    Append(list, minimize_scalar(data.cols[1], ref).xf)

\* the loop body with a search that carries state over from the feature
\* before it: no result falls below the previous feature's result
optimize_feature_carry(list, data, i, ref) ==
    LET x == minimize_scalar(data.cols[i + 1], ref).xf
    IN  Append(list, IF list = <<>> THEN x ELSE Max(x, list[Len(list)]))

\* the loop body for feature i (0-based):
\* alphas.append(minimize_scalar(func, bounds=(0, 1), method='bounded', args=i)["x"])
optimize_feature(list, data, i, ref) ==
    Append(list, minimize_scalar(data.cols[i + 1], ref).xf)

\* the loop over range(data_std.shape[1]) from feature i on
RECURSIVE optimize_from(_, _, _, _)
optimize_from(list, data, i, ref) ==
    IF i >= data.ncols THEN list
    ELSE optimize_from(optimize_feature(list, data, i, ref), data, i + 1, ref)

\* calculate_optimal_values() on the matrix data (with at least one row):
\* the reference sample, then the loop, then the list as the result
calculate_optimal_values(data) == optimize_from(<<>>, data, 0, make_gaussian)

\* what the loop body prints for feature i (0-based): print(">", end=""),
\* whatever the OptimizeResult of the search says; only its "x" was read
print_progress(out, data, i, ref) == Append(out, ">")

OptInit ==
    /\ data_std \in Matrices
    /\ gaussian = <<>>
    /\ alphas_list = <<>>
    /\ opt_i = 0
    /\ stdout = <<>>
    /\ opt_pc = "start"
    /\ RunIdle
    /\ a = <<>>
    /\ a_is_param = FALSE
    /\ alpha_history = <<>>

\* q, x, y, z, gaussian; alphas = []
BuildReference ==
    /\ opt_pc = "start"
    /\ gaussian' = make_gaussian
    /\ alphas_list' = <<>>
    /\ opt_i' = 0
    /\ opt_pc' = "loop"
    /\ UNCHANGED <<data_std, stdout, vtVars, runVars>>

\* one iteration of the loop over range(data_std.shape[1]).  On a matrix
\* without rows the first evaluation of func hands an empty sample to
\* wasserstein_distance, which raises ValueError; nothing catches it.
OptimizeFeature ==
    /\ opt_pc = "loop"
    /\ opt_i < data_std.ncols
    /\ IF data_std.nrows = 0
       THEN /\ opt_pc' = "raised"
            /\ UNCHANGED <<alphas_list, opt_i, stdout>>
       ELSE /\ alphas_list' = optimize_feature(alphas_list, data_std, opt_i, gaussian)
            /\ stdout' = print_progress(stdout, data_std, opt_i, gaussian)
            /\ opt_i' = opt_i + 1
            /\ opt_pc' = "loop"
    /\ UNCHANGED <<data_std, gaussian, vtVars, runVars>>

\* the loop is exhausted: print("."); alphas = torch.tensor(alphas);
\* print("Alphas:", alphas); return alphas, which the notebook binds to the
\* global alphas
OptReturn ==
    /\ opt_pc = "loop"
    /\ opt_i = data_std.ncols
    /\ alphas' = alphas_list
    /\ stdout' = stdout \o <<".", "Alphas:">>
    /\ opt_pc' = "returned"
    /\ UNCHANGED <<data_std, gaussian, alphas_list, opt_i, vtVars>>
    /\ UNCHANGED <<pc, run_idx, inst_idx, epoch, batch, original_model, model_w,
                   opt_params, sched, lrs, train_loss, test_loss, include_header,
                   csv, alpha_csv>>

OptNext == BuildReference \/ OptimizeFeature \/ OptReturn

SpecOpt == OptInit /\ [][OptNext]_vars

\* the objective of feature i (1-based) of the matrix at alpha x
objective(i, x) == func(x, data_std.cols[i], gaussian)

\* the first point the bounded search probes
FirstProbe == SDiv(GoldenNum * AScale, GoldenDen)

\* C5: on a matrix with no rows or with no features calculate_optimal_values
\* never returns normally (with an empty or partial alpha vector).
C5_EmptyMatrixIsError ==
    (data_std.nrows = 0 \/ data_std.ncols = 0) => opt_pc # "returned"

\* C6: for a matrix with k >= 1 features (and at least one row) the function
\* does not raise, and what it returns is a vector of exactly k alphas, entry
\* i the result of the search on column i, every entry within [0,1].
C6_OneAlphaPerFeature ==
    /\ (opt_pc = "raised") => data_std.nrows = 0
    /\ (opt_pc = "returned" /\ data_std.ncols >= 1) =>
          /\ Len(alphas) = data_std.ncols
          /\ \A i \in 1..data_std.ncols :
                /\ alphas[i] = minimize_scalar(data_std.cols[i], gaussian).xf
                /\ alphas[i] >= 0
                /\ alphas[i] <= AScale

\* a returned vector for two features whose searches ended at different alphas
C6_Witness ==
    /\ opt_pc = "returned"
    /\ data_std.ncols = 2
    /\ data_std.nrows = 2
    /\ alphas[1] # alphas[2]

\* column i (1-based) of the matrix holds a nan
HasNaN(i) == \E k \in 1..data_std.nrows : IsNaN(data_std.cols[i][k])

\* C7 (as stated): for every feature the returned alpha is at least as good
\* as alpha = 0.5 and as alpha = 1.0 on the feature's own objective (here
\* already for the features whose column holds no nan).
C7_TrueMinimum ==
    (opt_pc = "returned") =>
        \A i \in 1..Len(alphas) :
            ~HasNaN(i) =>
                /\ LeFloat(objective(i, alphas[i]), objective(i, AScale \div 2))
                /\ LeFloat(objective(i, alphas[i]), objective(i, AScale))

\* C7 (amended): for every feature the returned alpha is one of the points
\* the bounded search probed, the first probe 0 + golden_mean * (1 - 0)
\* among them, and on a column without nan it is the best of them.
C7_BestProbe ==
    (opt_pc = "returned") =>
        \A i \in 1..Len(alphas) :
            LET r == minimize_scalar(data_std.cols[i], gaussian)
            IN  /\ alphas[i] \in r.probes
                /\ FirstProbe \in r.probes
                /\ ~HasNaN(i) =>
                      \A x \in r.probes :
                          LeFloat(objective(i, alphas[i]), objective(i, x))

\* a returned alpha that the search moved away from its first probe to a
\* strictly better point, and that alpha = 1.0 still beats
C7_Witness ==
    /\ opt_pc = "returned"
    /\ \E i \in 1..Len(alphas) :
        /\ ~HasNaN(i)
        /\ alphas[i] # FirstProbe
        /\ objective(i, alphas[i]) < objective(i, FirstProbe)
        /\ objective(i, alphas[i]) > objective(i, AScale)

\* the OptimizeResult of the search of feature i (1-based)
result_of(i) == minimize_scalar(data_std.cols[i], gaussian)

\* what calculate_optimal_values prints whether or not a search converged:
\* the progress mark of a feature, the closing dot, the alphas
routine_output == {">", ".", "Alphas:"}

\* C11: when the search of some feature did not converge (success is False),
\* the function still returns a full-length vector whose entry for that
\* feature is the search's best estimate within [0,1], and it has printed
\* a diagnostic: something other than its routine output.
C11_NonConvergenceLogged ==
    (opt_pc = "returned" /\ \E i \in 1..data_std.ncols : result_of(i).status # 0) =>
        /\ Len(alphas) = data_std.ncols
        /\ \A i \in 1..data_std.ncols :
              /\ alphas[i] = result_of(i).xf
              /\ alphas[i] >= 0
              /\ alphas[i] <= AScale
        /\ \E k \in 1..Len(stdout) : stdout[k] \notin routine_output

\* the permutations of 1..k
Perms(k) == {p \in [1..k -> 1..k] : \A i, j \in 1..k : p[i] = p[j] => i = j}

\* the matrix with column p[i] of data as its column i
permute_columns(data, p) ==
    [data EXCEPT !.cols = [i \in 1..data.ncols |-> data.cols[p[i]]]]

\* C12: the searches are independent.  An iteration of the loop leaves the
\* matrix, the reference sample and the alphas already found as they are and
\* puts its result in the next slot; and the vector returned for a matrix is,
\* permuted the same way, the vector the function returns for the matrix
\* with its columns permuted in any way.
C12_FeaturesIndependent ==
    /\ [][(opt_pc = "loop" /\ opt_pc' = "loop") =>
            /\ data_std' = data_std
            /\ gaussian' = gaussian
            /\ Len(alphas_list') = Len(alphas_list) + 1
            /\ SubSeq(alphas_list', 1, Len(alphas_list)) = alphas_list]_vars
    /\ []((opt_pc = "returned" /\ data_std.nrows >= 1) =>
            \A p \in Perms(data_std.ncols) :
                calculate_optimal_values(permute_columns(data_std, p))
                    = [i \in 1..data_std.ncols |-> alphas[p[i]]])

\* a returned vector for two different columns without nan, the second of
\* which got the smaller alpha
C12_Witness ==
    /\ opt_pc = "returned"
    /\ data_std.ncols >= 2
    /\ ~HasNaN(1)
    /\ ~HasNaN(2)
    /\ data_std.cols[1] # data_std.cols[2]
    /\ alphas[1] > alphas[2]

\* the values of the reference sample
gaussian_values == {gaussian[j].v : j \in 1..Len(gaussian)}

\* C13: once built, the reference sample has every value within [-1,1], its
\* smallest value is -1 and its largest is 1 (the images of the smallest and
\* the largest value of the expanded sequence, whose order the rescale
\* keeps), and no later step - no objective evaluation - changes it.
C13_ReferenceSpansUnitInterval ==
    /\ [](opt_pc \in {"loop", "returned", "raised"} =>
            /\ gaussian # <<>>
            /\ \A v \in gaussian_values : -VScale <= v /\ v <= VScale
            /\ \E v \in gaussian_values : v = -VScale
            /\ \E v \in gaussian_values : v = VScale
            /\ gaussian[1].v = -VScale
            /\ gaussian[Len(gaussian)].v = VScale
            /\ \A j \in 1..(Len(gaussian) - 1) : gaussian[j].v < gaussian[j + 1].v)
    /\ [][opt_pc # "start" => gaussian' = gaussian]_vars

\* the function has returned after searching two features against a
\* reference sample that has values strictly inside (-1,1) too
C13_Witness ==
    /\ opt_pc = "returned"
    /\ Len(alphas) = 2
    /\ data_std.nrows >= 1
    /\ Cardinality(gaussian_values) >= 4
    /\ \E v \in gaussian_values : -VScale < v /\ v < 0
    /\ \E v \in gaussian_values : 0 < v /\ v < VScale

====
